---- MODULE Spec2Model ----
(***************************************************************************)
(* Model of the request batcher (package batcher, RequestBatcher) and of   *)
(* the way its callers use it.  One caller = one call of                   *)
(* SendRequestWithTimeout, numbered in the order the calls are made.       *)
(* Every critical section of the instance mutex is one atomic action; a    *)
(* goroutine started with go is a separate action that runs later.         *)
(***************************************************************************)
EXTENDS Integers, Sequences, FiniteSets, TLC

\* ---------------------------------------------------------------- bounds
NumCallers == 2
MaxMaxBatchSize == 3

\* --------------------------------------------------- program constants
BatchTimeout == 1

Callers == 1..NumCallers
BatchSizes == 1..MaxMaxBatchSize

\* Go's nil (nil pointer, nil interface, nil error)
Nil == "nil"

\* request and response bodies (interface{} values)
Values == {"a", "b"}

\* timeouts tried by callers: below, equal to and above BatchTimeout
Timeouts == {BatchTimeout - 1, BatchTimeout, BatchTimeout + 1}

\* error values built by the batcher
ErrNilRequest == "Received nil request"
ErrTimeoutTooShort == "Timeout period should be longer than batch timout"
ErrRequestTimeout == "Request timeout after"
ErrAPI == "API error"

\* errors a user supplied SendF may return
SendFErrs == {"backend failed", "backend timeout"}

VARIABLES
    MaxBatchSize,   \* BatchingConfig.MaxBatchSize
    running,        \* RequestBatcher.running
    parentDone,     \* parentCtx.Done() is closed
    watcher,        \* the goroutine of NewRequestBatcher: "waiting", "done"
    curBatch,       \* RequestBatcher.curBatch: 0 is nil, else an index of batches
    batches,        \* every startedBatch allocated so far
    respCh,         \* respCh[c]: the channel made by caller c's registerRequest
    pc,             \* pc[c]: where caller c is in SendRequestWithTimeout
    req,            \* req[c]: the arguments of caller c's call
    ret,            \* ret[c]: what caller c's call returned
    expired,        \* expired[c]: caller c returned because its own deadline passed
    invocations,    \* history: the SendF calls made so far
    crashed,        \* the process died of an unrecovered panic: Nil or the panic
    atStop,         \* history: what stop() and the cancellation found
    mutex           \* RequestBatcher.Mutex: "free" or "held"

vars == <<MaxBatchSize, running, parentDone, watcher, curBatch, batches, respCh,
          pc, req, ret, expired, invocations, crashed, atStop, mutex>>

\* ------------------------------------------------------------ data types
\* singleResponse
singleResponse(body, err) == [body |-> body, err |-> err]

\* make(chan *singleResponse, 1), with the history of what was sent and closed
NewChan == [buf |-> <<>>, closed |-> FALSE, pub |-> <<>>, closes |-> 0]

\* startedBatch, as registerRequest makes it (startedBatchNoTimer is the variant
\* that never starts the timer); subscribers[i] is the caller whose respCh batchSubscriber i holds
\* timer:   "pending" (scheduled), "fired" (callback started, not yet run),
\*          "stopped" (Stop() came first), "done" (callback has run)
\* state:   "open", "sending" (go send(batch) started), "sent", "panicked"
\* trigger: how it was detached: "none", "size", "fallthrough", "timer"
\* timerOf: the batch whose timer callback detached it (0: none)
startedBatchNoTimer(body, sub) ==
    [body |-> <<body>>, subscribers |-> <<sub>>, timer |-> "stopped",
     state |-> "open", trigger |-> "none", timerOf |-> 0]

startedBatch(body, sub) ==
    [body |-> <<body>>, subscribers |-> <<sub>>, timer |-> "pending",
     state |-> "open", trigger |-> "none", timerOf |-> 0]

Init ==
    /\ MaxBatchSize \in BatchSizes
    /\ running = TRUE
    /\ parentDone = FALSE
    /\ watcher = "waiting"
    /\ curBatch = 0
    /\ batches = <<>>
    /\ respCh = [c \in Callers |-> NewChan]
    /\ pc = [c \in Callers |-> "idle"]
    /\ req = [c \in Callers |-> [body |-> Nil, timeout |-> 0]]
    /\ ret = [c \in Callers |-> [body |-> Nil, err |-> Nil]]
    /\ expired = [c \in Callers |-> FALSE]
    /\ invocations = {}
    /\ crashed = Nil
    /\ atStop = [inflight |-> {}, waiters |-> {}, late |-> {}]
    /\ mutex = "free"

\* the batch whose subscribers hold caller c's channel (0: none)
BatchOf(c) ==
    IF \E b \in 1..Len(batches) :
           \E i \in 1..Len(batches[b].subscribers) : batches[b].subscribers[i] = c
    THEN CHOOSE b \in 1..Len(batches) :
           \E i \in 1..Len(batches[b].subscribers) : batches[b].subscribers[i] = c
    ELSE 0

\* ---------------------------------------------------------------- mutex
\* b.Lock(): blocks until the mutex is free
Lock == mutex = "free"

\* variant of Unlock: the mutex stays held when the critical section is left
UnlockForgotten == "held"

\* b.Unlock(), at the end of the critical section that took the mutex: each
\* critical section of the batcher is one step, none of them calls SendF,
\* sends into a channel or waits for anything
Unlock == "free"

\* --------------------------------------------------------------- timers
\* time.Timer.Stop: prevents the callback unless the timer has already fired
TimerStop(t) == IF t = "pending" THEN "stopped" ELSE t

\* the batch timer expires: the runtime starts the callback in its own goroutine
TimerFire(b) ==
    /\ crashed = Nil
    /\ batches[b].timer = "pending"
    /\ batches' = [batches EXCEPT ![b].timer = "fired"]
    /\ UNCHANGED <<mutex, MaxBatchSize, running, parentDone, watcher, curBatch, respCh,
                   pc, req, ret, expired, invocations, crashed, atStop>>

\* ------------------------------------------------------------- dispatch
\* go func() { b.send(batch) }() on the batch taken out of curBatch
GoSend(bs, b, trigger, timerOf) ==
    [bs EXCEPT ![b].state = "sending", ![b].trigger = trigger, ![b].timerOf = timerOf]

\* sendCurBatch: pops curBatch and sends it, the caller holds the mutex
sendCurBatch(bs, cur, trigger) ==
    IF cur # 0 THEN GoSend(bs, cur, trigger, 0) ELSE bs

\* variant of sendCurBatchWithSafety: the batch is sent but curBatch keeps it
sendCurBatchWithSafetyKeep(b) ==
    /\ crashed = Nil
    /\ batches[b].timer = "fired"
    /\ Lock
    /\ mutex' = Unlock
    /\ LET ran == [batches EXCEPT ![b].timer = "done"]
       IN  batches' = IF curBatch # 0 THEN GoSend(ran, curBatch, "timer", b) ELSE ran
    /\ UNCHANGED <<MaxBatchSize, running, parentDone, watcher, curBatch, respCh,
                   pc, req, ret, expired, invocations, crashed, atStop>>

\* sendCurBatchWithSafety, the callback of batch b's timer: pops whatever batch
\* is current under the mutex and sends it
sendCurBatchWithSafety(b) ==
    /\ crashed = Nil
    /\ batches[b].timer = "fired"
    /\ Lock
    /\ mutex' = Unlock
    /\ LET ran == [batches EXCEPT ![b].timer = "done"]
       IN  batches' = IF curBatch # 0 THEN GoSend(ran, curBatch, "timer", b) ELSE ran
    /\ curBatch' = 0
    /\ UNCHANGED <<MaxBatchSize, running, parentDone, watcher, respCh,
                   pc, req, ret, expired, invocations, crashed, atStop>>

\* --------------------------------------------------------- registration
\* variant of CanAppend: the bound is compared with <= instead of <
CanAppendOffByOne(batch) == Len(batch.body) <= MaxBatchSize

\* variant of CanAppend: the size of the batch is not looked at
CanAppendAlways(batch) == TRUE

\* len(b.curBatch.body) < b.MaxBatchSize
CanAppend(batch) == Len(batch.body) < MaxBatchSize

\* variant of IsFull: the bound is compared with > instead of >=
IsFullStrict(batch) == Len(batch.body) > MaxBatchSize

\* len(b.curBatch.body) >= b.MaxBatchSize
IsFull(batch) == Len(batch.body) >= MaxBatchSize

\* variant of AppendRequest: the subscriber is not appended
AppendRequestBodyOnly(bs, cur, c, body) ==
    [bs EXCEPT ![cur].body = Append(@, body)]

\* variant of AppendRequest: the request is put at the head of the batch
AppendRequestPrepend(bs, cur, c, body) ==
    [bs EXCEPT ![cur].body = <<body>> \o @,
               ![cur].subscribers = <<c>> \o @]

\* the request joins the current batch
AppendRequest(bs, cur, c, body) ==
    [bs EXCEPT ![cur].body = Append(@, body),
               ![cur].subscribers = Append(@, c)]

\* curBatch.timer.Stop()
StopBatchTimer(bs, cur) == [bs EXCEPT ![cur].timer = TimerStop(@)]

\* registerRequest: the values of <<batches, curBatch>> when the mutex is released
registerRequest(c, body) ==
    IF curBatch # 0
    THEN IF CanAppend(batches[curBatch])
         THEN LET joined == AppendRequest(batches, curBatch, c, body)
              IN  IF IsFull(joined[curBatch])
                  THEN <<sendCurBatch(StopBatchTimer(joined, curBatch), curBatch, "size"), 0>>
                  ELSE <<joined, curBatch>>
         ELSE LET popped == sendCurBatch(StopBatchTimer(batches, curBatch),
                                         curBatch, "fallthrough")
              IN  <<Append(popped, startedBatch(body, c)), Len(batches) + 1>>
    ELSE <<Append(batches, startedBatch(body, c)), Len(batches) + 1>>

\* variant of IsNilRequest: the nil check is missing
IsNilRequestNever(body) == FALSE

\* newRequestBody == nil
IsNilRequest(body) == body = Nil

\* variant of TimeoutTooShort: a timeout equal to BatchTimeout is let through
TimeoutTooShortStrict(timeout) == timeout < BatchTimeout

\* timeout <= b.BatchTimeout
TimeoutTooShort(timeout) == timeout <= BatchTimeout

\* SendRequestWithTimeout up to its select: validation, then registerRequest
SendRequestWithTimeout(c, body, timeout) ==
    /\ crashed = Nil
    /\ pc[c] = "idle"
    /\ \A d \in Callers : d < c => pc[d] # "idle"
    /\ req' = [req EXCEPT ![c] = [body |-> body, timeout |-> timeout]]
    /\ IF IsNilRequest(body)
       THEN /\ ret' = [ret EXCEPT ![c] = [body |-> Nil, err |-> ErrNilRequest]]
            /\ pc' = [pc EXCEPT ![c] = "returned"]
            /\ UNCHANGED <<batches, curBatch, atStop, mutex>>
       ELSE IF TimeoutTooShort(timeout)
       THEN /\ ret' = [ret EXCEPT ![c] = [body |-> Nil, err |-> ErrTimeoutTooShort]]
            /\ pc' = [pc EXCEPT ![c] = "returned"]
            /\ UNCHANGED <<batches, curBatch, atStop, mutex>>
       ELSE /\ Lock
            /\ mutex' = Unlock
            /\ batches' = registerRequest(c, body)[1]
            /\ curBatch' = registerRequest(c, body)[2]
            /\ pc' = [pc EXCEPT ![c] = "waiting"]
            /\ atStop' = IF running THEN atStop
                         ELSE [atStop EXCEPT !.late = @ \cup {c}]
            /\ UNCHANGED ret
    /\ UNCHANGED <<MaxBatchSize, running, parentDone, watcher, respCh,
                   expired, invocations, crashed>>

\* ------------------------------------------------------------- channels
\* ch <- v followed by close(ch), on an open channel with room in its buffer
SendAndClose(ch, v) ==
    [ch EXCEPT !.buf = Append(@, v), !.pub = Append(@, v),
               !.closed = TRUE, !.closes = @ + 1]

\* close(ch) on an open channel
Close(ch) == [ch EXCEPT !.closed = TRUE, !.closes = @ + 1]

\* --------------------------------------------------------------- SendF
\* sequences over S of length n
SeqsOfLen(S, n) == [1..n -> S]

\* what a SendF may return for a batch body: an error, a slice as long as the
\* body with any elements, or a slice of another length (send reads only the
\* length of such a slice: the body cut by one and the body grown by one)
SendFResults(body) ==
    [resp : {Nil}, err : SendFErrs]
    \cup [resp : SeqsOfLen(Values, Len(body))
                 \cup {SubSeq(body, 1, Len(body) - 1), Append(body, body[1])},
          err : {Nil}]

\* ----------------------------------------------------------------- send
\* variant of RespAt: the response is indexed from the other end, the way the
\* loop of send runs
RespAtFromEnd(batchResp, i) == batchResp[Len(batchResp) - i + 1]

\* variant of RespAt: every subscriber gets the first element
RespAtFirst(batchResp, i) == batchResp[1]

\* the element of the SendF response sent to subscriber i
RespAt(batchResp, i) == batchResp[i]

\* the singleResponse that send publishes to subscriber i of the batch
ResponseFor(batch, out, i) ==
    IF out.err # Nil THEN singleResponse(Nil, out.err)
    ELSE IF Len(out.resp) # Len(batch.body) THEN singleResponse(Nil, ErrAPI)
    ELSE singleResponse(RespAt(out.resp, i), Nil)

\* the subscribers send reaches: the loop runs from the last subscriber down
\* and panics at the first channel that is already closed
ClosedAt(batch) ==
    {i \in 1..Len(batch.subscribers) : respCh[batch.subscribers[i]].closed}

Reached(batch) ==
    {i \in 1..Len(batch.subscribers) : \A j \in ClosedAt(batch) : i > j}

\* how many times SendF was applied to batch b
TimesSent(b) == Cardinality({k \in invocations : k.batch = b})

\* send: SendF is applied to the batch body and its result is fanned out
send(b) ==
    /\ crashed = Nil
    /\ batches[b].state = "sending"
    /\ \E out \in SendFResults(batches[b].body) :
         LET batch == batches[b]
             subs == batch.subscribers
         IN  /\ invocations' = invocations \cup
                    {[batch |-> b, n |-> TimesSent(b) + 1, input |-> batch.body,
                      subs |-> subs, resp |-> out.resp, err |-> out.err]}
             /\ respCh' = [c \in Callers |->
                    IF \E i \in Reached(batch) : subs[i] = c
                    THEN SendAndClose(respCh[c],
                             ResponseFor(batch, out,
                                 CHOOSE i \in Reached(batch) : subs[i] = c))
                    ELSE respCh[c]]
             /\ IF ClosedAt(batch) = {}
                THEN /\ batches' = [batches EXCEPT ![b].state = "sent"]
                     /\ UNCHANGED crashed
                ELSE /\ batches' = [batches EXCEPT ![b].state = "panicked"]
                     /\ crashed' = "send on closed channel"
    /\ UNCHANGED <<mutex, MaxBatchSize, running, parentDone, watcher, curBatch,
                   pc, req, ret, expired, atStop>>

\* ------------------------------------------------- the select of a caller
\* case resp := <-respCh
RecvResp(c) ==
    /\ crashed = Nil
    /\ pc[c] = "waiting"
    /\ \/ /\ respCh[c].buf # <<>>
          /\ LET resp == Head(respCh[c].buf)
             IN  ret' = [ret EXCEPT ![c] =
                            IF resp.err # Nil THEN [body |-> Nil, err |-> resp.err]
                            ELSE [body |-> resp.body, err |-> Nil]]
          /\ respCh' = [respCh EXCEPT ![c].buf = Tail(@)]
          /\ pc' = [pc EXCEPT ![c] = "returned"]
          /\ UNCHANGED crashed
       \/ \* a closed and empty channel yields a nil *singleResponse: resp.err
          \* panics; the panic unwinds the caller and kills the process unless
          \* the calling goroutine recovers
          /\ respCh[c].buf = <<>>
          /\ respCh[c].closed
          /\ pc' = [pc EXCEPT ![c] = "panicked"]
          /\ crashed' \in {Nil, "nil pointer dereference"}
          /\ UNCHANGED <<ret, respCh>>
    /\ UNCHANGED <<mutex, MaxBatchSize, running, parentDone, watcher, curBatch, batches,
                   req, expired, invocations, atStop>>

\* the deadline of context.WithTimeout(b.parentCtx, timeout) can pass: timeout
\* is longer than BatchTimeout, so the timer of the caller's batch went first
DeadlineCanPass(c) == batches[BatchOf(c)].timer # "pending"

\* case <-ctx.Done(): the context derived from parentCtx is done when the
\* caller's own deadline passes or when parentCtx is done
CtxDone(c) ==
    /\ crashed = Nil
    /\ pc[c] = "waiting"
    /\ \/ /\ DeadlineCanPass(c)
          /\ expired' = [expired EXCEPT ![c] = TRUE]
       \/ /\ parentDone
          /\ UNCHANGED expired
    /\ ret' = [ret EXCEPT ![c] = [body |-> Nil, err |-> ErrRequestTimeout]]
    /\ pc' = [pc EXCEPT ![c] = "returned"]
    /\ UNCHANGED <<mutex, MaxBatchSize, running, parentDone, watcher, curBatch, batches,
                   respCh, req, invocations, crashed, atStop>>

\* ------------------------------------------------------------- shutdown
\* the parent context is cancelled
Cancel ==
    /\ crashed = Nil
    /\ ~parentDone
    /\ parentDone' = TRUE
    /\ atStop' = [atStop EXCEPT !.inflight =
                     {b \in 1..Len(batches) : batches[b].state = "sending"}]
    /\ UNCHANGED <<mutex, MaxBatchSize, running, watcher, curBatch, batches, respCh,
                   pc, req, ret, expired, invocations, crashed>>

\* the channels stop closes: those of the subscribers of curBatch
StopCloses(cur) ==
    IF cur = 0 THEN {}
    ELSE {batches[cur].subscribers[i] : i \in 1..Len(batches[cur].subscribers)}

\* stop, run by the goroutine of NewRequestBatcher once parentCtx is done;
\* curBatch is left as it is
stop ==
    /\ crashed = Nil
    /\ watcher = "waiting"
    /\ parentDone
    /\ Lock
    /\ mutex' = Unlock
    /\ watcher' = "done"
    /\ running' = FALSE
    /\ batches' = IF curBatch # 0 THEN StopBatchTimer(batches, curBatch) ELSE batches
    /\ respCh' = [c \in Callers |->
                     IF c \in StopCloses(curBatch) /\ ~respCh[c].closed
                     THEN Close(respCh[c]) ELSE respCh[c]]
    /\ crashed' = IF \E c \in StopCloses(curBatch) : respCh[c].closed
                  THEN "close of closed channel" ELSE crashed
    /\ atStop' = [atStop EXCEPT !.waiters =
                     {c \in StopCloses(curBatch) : pc[c] = "waiting"}]
    /\ UNCHANGED <<MaxBatchSize, parentDone, curBatch, pc, req, ret, expired,
                   invocations>>

\* ------------------------------------------------------------ behaviours
Next ==
    \/ \E c \in Callers, body \in Values \cup {Nil}, timeout \in Timeouts :
           SendRequestWithTimeout(c, body, timeout)
    \/ \E b \in 1..Len(batches) : TimerFire(b)
    \/ \E b \in 1..Len(batches) : sendCurBatchWithSafety(b)
    \/ \E b \in 1..Len(batches) : send(b)
    \/ \E c \in Callers : RecvResp(c)
    \/ \E c \in Callers : CtxDone(c)
    \/ Cancel
    \/ stop

Spec == Init /\ [][Next]_vars

\* Go schedules every runnable goroutine and fires every pending timer; the
\* callers and the cancellation of the parent context are the environment's
Fairness ==
    /\ \A b \in 1..NumCallers : WF_vars(b <= Len(batches) /\ TimerFire(b))
    /\ \A b \in 1..NumCallers : WF_vars(b <= Len(batches) /\ sendCurBatchWithSafety(b))
    /\ \A b \in 1..NumCallers : WF_vars(b <= Len(batches) /\ send(b))
    /\ \A c \in Callers : WF_vars(RecvResp(c) \/ CtxDone(c))
    /\ WF_vars(stop)

LiveSpec == Init /\ [][Next]_vars /\ Fairness
\* ================================================================ claims
\* the Stopped error of the specification (the batcher builds no such error)
Stopped == "Stopped"

\* caller c passed validation and went through registerRequest
Registered(c) == pc[c] # "idle" /\ req[c].body # Nil /\ req[c].timeout > BatchTimeout

\* what caller c's call returned is what was published into its channel
ReturnedPublished(c) ==
    /\ respCh[c].pub # <<>>
    /\ ret[c] = IF respCh[c].pub[1].err # Nil
                THEN [body |-> Nil, err |-> respCh[c].pub[1].err]
                ELSE [body |-> respCh[c].pub[1].body, err |-> Nil]

\* C1: a call that returns a value v was subscriber i of a SendF invocation
\* whose input held the call's body at index i, and v is element i of the
\* response of that invocation
C1_ResponseByPosition ==
    \A c \in Callers :
        (pc[c] = "returned" /\ ret[c].err = Nil) =>
            \E k \in invocations : \E i \in 1..Len(k.subs) :
                /\ k.subs[i] = c
                /\ k.input[i] = req[c].body
                /\ k.err = Nil
                /\ Len(k.resp) = Len(k.input)
                /\ ret[c].body = k.resp[i]

\* two callers of one batch have both returned a value, and SendF answered
\* them with different elements
C1_Witness ==
    \E k \in invocations :
        /\ k.err = Nil
        /\ Len(k.input) = 2
        /\ Len(k.resp) = 2
        /\ k.resp[1] # k.resp[2]
        /\ \A i \in 1..2 : pc[k.subs[i]] = "returned" /\ ret[k.subs[i]].err = Nil

\* C2: every response channel has at most one value sent into it and is
\* closed at most once, and nothing is sent into or closed again on a closed
\* channel (either would panic)
C2_SlotWrittenAndClosedOnce ==
    /\ crashed \notin {"send on closed channel", "close of closed channel"}
    /\ \A c \in Callers : Len(respCh[c].pub) <= 1 /\ respCh[c].closes <= 1

\* C3: a caller that was waiting on the open batch when stop closed its
\* channel returns the Stopped error: it does not panic, and unless its own
\* deadline passed it returns nothing else
C3_WaitersGetStopped ==
    \A c \in atStop.waiters :
        /\ pc[c] # "panicked"
        /\ (pc[c] = "returned" /\ ~expired[c]) => ret[c].err = Stopped

\* C4: a call registered after stop is in no batch and returns Stopped
C4_NoSubmitAfterStop ==
    \A c \in atStop.late :
        /\ BatchOf(c) = 0
        /\ pc[c] = "returned" => ret[c].err = Stopped

\* C5: a caller of a batch that was being sent when the parent context was
\* cancelled, and whose own deadline did not pass, returns what the fan-out
\* published for it
C5_InflightSurvivesCancel ==
    \A b \in atStop.inflight : \A i \in 1..Len(batches[b].subscribers) :
        LET c == batches[b].subscribers[i]
        IN  (pc[c] = "returned" /\ ~expired[c]) => ReturnedPublished(c)

\* C6: once the parent context is cancelled, no call is left that cannot
\* return: every call made has returned, or is waiting and can still take the
\* Done case of its select
C6_NoOrphanedWaiters ==
    parentDone =>
        \A c \in Callers :
            \/ pc[c] \in {"idle", "returned"}
            \/ pc[c] = "waiting" /\ ENABLED CtxDone(c)

\* C7: every body passed to SendF, or detached to be passed to it, has between
\* 1 and MaxBatchSize elements
C7_BatchLengthBounded ==
    /\ \A k \in invocations : Len(k.input) >= 1 /\ Len(k.input) <= MaxBatchSize
    /\ \A b \in 1..Len(batches) :
           batches[b].state # "open" =>
               Len(batches[b].body) >= 1 /\ Len(batches[b].body) <= MaxBatchSize

\* SendF has been called on a batch that the fall-through path detached when
\* it was already full, and on a batch that a timer callback detached
C7_Witness ==
    /\ \E k \in invocations : batches[k.batch].trigger = "fallthrough"
    /\ \E k \in invocations : batches[k.batch].trigger = "timer"

\* SendF has been called on a batch of MaxBatchSize >= 2 requests that the
\* size trigger detached
C7_WitnessSize ==
    \E k \in invocations :
        /\ batches[k.batch].trigger = "size"
        /\ Len(k.input) = MaxBatchSize

\* C8: unless the parent context is cancelled, every registered call gets a
\* result published into its channel; no channel ever gets more than one
\* result, and a result is never both a value and an error
C8_EveryRequestAnswered ==
    /\ [](\A c \in Callers :
            /\ Len(respCh[c].pub) <= 1
            /\ \A j \in 1..Len(respCh[c].pub) :
                   respCh[c].pub[j].body = Nil \/ respCh[c].pub[j].err = Nil)
    /\ \A c \in Callers :
           Registered(c) ~> (parentDone \/ Len(respCh[c].pub) = 1)

\* a registered call got its result through its batch's timer, the parent
\* context not cancelled
C8_Witness ==
    \E c \in Callers :
        /\ Registered(c)
        /\ ~parentDone
        /\ Len(respCh[c].pub) = 1
        /\ batches[BatchOf(c)].trigger = "timer"

\* C9: when SendF returned an error for a batch, every subscriber of the batch
\* has exactly that error published and its channel closed
C9_HandlerErrorFanOut ==
    \A k \in invocations :
        k.err # Nil =>
            \A i \in 1..Len(k.subs) :
                /\ respCh[k.subs[i]].pub = <<singleResponse(Nil, k.err)>>
                /\ respCh[k.subs[i]].closed

\* C10: when SendF returned a slice of another length than the batch, every
\* subscriber of the batch has the API error published and its channel closed
C10_LengthMismatchFanOut ==
    \A k \in invocations :
        (k.err = Nil /\ Len(k.resp) # Len(k.input)) =>
            \A i \in 1..Len(k.subs) :
                /\ respCh[k.subs[i]].pub = <<singleResponse(Nil, ErrAPI)>>
                /\ respCh[k.subs[i]].closed
\* what the batcher holds: the configuration, the running flag, the current
\* batch, every batch with its timer, every response channel and the SendF calls
BatcherState == <<MaxBatchSize, running, curBatch, batches, respCh, invocations>>

\* caller c makes its call in this step
Calls(c) == pc[c] = "idle" /\ pc'[c] # "idle"

\* C11: a call with a nil body returns the nil-request error at once and leaves
\* the batcher as it was: current batch, bodies, subscribers, timers, channels
\* and SendF calls
C11_NilRequestRejected ==
    [][\A c \in Callers :
          (Calls(c) /\ req'[c].body = Nil) =>
              /\ pc'[c] = "returned"
              /\ ret'[c] = [body |-> Nil, err |-> ErrNilRequest]
              /\ BatcherState' = BatcherState]_vars

\* a call with a nil body has returned its error while a batch is open with
\* its timer pending
C11_Witness ==
    \E c \in Callers :
        /\ pc[c] = "returned"
        /\ req[c].body = Nil
        /\ ret[c].err = ErrNilRequest
        /\ curBatch # 0
        /\ batches[curBatch].timer = "pending"

\* C12: a call with timeout <= BatchTimeout is rejected before registration
\* and leaves the batcher as it was (with a body, the error is the
\* timeout-too-short one); a call with a body and a longer timeout is
\* registered
C12_ShortTimeoutRejected ==
    [][\A c \in Callers :
          Calls(c) =>
              /\ req'[c].timeout <= BatchTimeout =>
                    /\ pc'[c] = "returned"
                    /\ ret'[c].err \in {ErrNilRequest, ErrTimeoutTooShort}
                    /\ req'[c].body # Nil => ret'[c].err = ErrTimeoutTooShort
                    /\ BatcherState' = BatcherState
              /\ (req'[c].timeout > BatchTimeout /\ req'[c].body # Nil) =>
                    /\ pc'[c] = "waiting"
                    /\ ret'[c] = ret[c]
                    /\ \E b \in 1..Len(batches') :
                           \E i \in 1..Len(batches'[b].subscribers) :
                               batches'[b].subscribers[i] = c]_vars
\* a call with a body and timeout = BatchTimeout has been rejected while a
\* batch is open with its timer pending, and a call with a longer timeout is
\* registered
C12_Witness ==
    \E c, d \in Callers :
        /\ pc[c] = "returned"
        /\ req[c].body # Nil
        /\ req[c].timeout = BatchTimeout
        /\ ret[c].err = ErrTimeoutTooShort
        /\ curBatch # 0
        /\ batches[curBatch].timer = "pending"
        /\ req[d].timeout > BatchTimeout
        /\ BatchOf(d) = curBatch
\* C13: when SendF answers a batch with its own body, every caller of the
\* batch that returns a value returns the body it submitted
C13_IdentityRoundTrip ==
    \A k \in invocations :
        (k.err = Nil /\ k.resp = k.input) =>
            \A i \in 1..Len(k.subs) :
                (pc[k.subs[i]] = "returned" /\ ret[k.subs[i]].err = Nil) =>
                    ret[k.subs[i]].body = req[k.subs[i]].body

\* SendF answered a batch of two different bodies with that body and both
\* callers have returned a value
C13_Witness ==
    \E k \in invocations :
        /\ k.err = Nil
        /\ k.resp = k.input
        /\ Len(k.input) = 2
        /\ k.input[1] # k.input[2]
        /\ \A i \in 1..2 : pc[k.subs[i]] = "returned" /\ ret[k.subs[i]].err = Nil

\* SendF answered a batch of two equal bodies with that body and both callers
\* have returned a value
C13_WitnessSamePayload ==
    \E k \in invocations :
        /\ k.err = Nil
        /\ k.resp = k.input
        /\ Len(k.input) = 2
        /\ k.input[1] = k.input[2]
        /\ \A i \in 1..2 : pc[k.subs[i]] = "returned" /\ ret[k.subs[i]].err = Nil

\* the number of registered calls, and ceil(n / m)
NumRegistered == Cardinality({c \in Callers : Registered(c)})

CeilDiv(n, m) == (n + m - 1) \div m

\* no timer of a batch other than the newest has fired and the parent context
\* is not cancelled: so it is for as long as all the calls made so far were
\* registered before the first timer fired
NoEarlyTimer ==
    /\ ~parentDone
    /\ \A b \in 1..(Len(batches) - 1) : batches[b].timer \in {"pending", "stopped"}

C15_TimeoutLeavesBatchAlone ==
    \A c \in Callers :
        expired[c] =>
            LET batch == batches[BatchOf(c)]
            IN  /\ pc[c] = "returned"
                /\ ret[c].err = ErrRequestTimeout
                /\ \E i \in 1..Len(batch.subscribers) :
                       batch.subscribers[i] = c /\ batch.body[i] = req[c].body
                /\ batch.state # "panicked"
                /\ batch.state = "sent" =>
                       \A i \in 1..Len(batch.subscribers) :
                           Len(respCh[batch.subscribers[i]].pub) = 1
\* ------------------------------------------------------- HTTP front end
StatusOK == 200

StatusBadRequest == 400

StatusRequestTimeout == 408

\* err.Error(), as the sequence of the words of the message: no word of these
\* messages holds "timeout" inside it, so a substring search for that word
\* finds it exactly when it is one of the words ("Timeout" and "timout" of
\* the too-short message are not matches, strings.Contains compares bytes)
Error(err) ==
    CASE err = ErrNilRequest      -> <<"Received", "nil", "request">>
      [] err = ErrTimeoutTooShort -> <<"Timeout", "period", "should", "be", "longer",
                                       "than", "batch", "timout">>
      [] err = ErrRequestTimeout  -> <<"Request", "timeout", "after">>
      [] err = ErrAPI             -> <<"API", "error">>
      [] err = "backend failed"   -> <<"backend", "failed">>
      [] err = "backend timeout"  -> <<"backend", "timeout">>

\* strings.Contains(msg, substr) on a message given by its words
Contains(msg, substr) == \E i \in 1..Len(msg) : msg[i] = substr

\* the status RootHandler answers with for what SendRequestWithTimeout returned
RootHandler(res) ==
    IF res.err # Nil
    THEN IF Contains(Error(res.err), "timeout")
         THEN StatusRequestTimeout
         ELSE StatusBadRequest
    ELSE StatusOK

\* C16: a call that returned an error is answered 408 when the error is the
\* timeout of the caller's deadline and 400 for every other error
C16_StatusByErrorKind ==
    \A c \in Callers :
        (pc[c] = "returned" /\ ret[c].err # Nil) =>
            RootHandler(ret[c]) = IF ret[c].err = ErrRequestTimeout
                                  THEN StatusRequestTimeout
                                  ELSE StatusBadRequest
\* C17: a batch detached by a timer callback was detached by the callback of
\* its own timer: the callback of the timer of an earlier batch, run after
\* that batch was detached by registerRequest, detaches no later batch
C17_StaleCallbackNoOp ==
    \A b \in 1..Len(batches) :
        batches[b].trigger = "timer" => batches[b].timerOf = b
C18_WitnessSizeOne ==
    /\ MaxBatchSize = 1
    /\ curBatch = 2
    /\ batches[1].trigger = "fallthrough"
\* the batches that are open, and the positions caller c has in the batches
OpenBatches == {b \in 1..Len(batches) : batches[b].state = "open"}

PositionsOf(c) ==
    {<<b, i>> \in (1..Len(batches)) \X (1..MaxMaxBatchSize) :
        i <= Len(batches[b].subscribers) /\ batches[b].subscribers[i] = c}

\* C19: at most one batch is open, it is the one curBatch points to, its body
\* and its subscribers have the same length, between 1 and MaxBatchSize, and
\* subscriber i belongs to the call that submitted body element i
C19_OneOpenBatchParallel ==
    /\ Cardinality(OpenBatches) <= 1
    /\ OpenBatches = IF curBatch = 0 THEN {} ELSE {curBatch}
    /\ \A b \in OpenBatches :
           /\ Len(batches[b].body) = Len(batches[b].subscribers)
           /\ Len(batches[b].body) >= 1
           /\ Len(batches[b].body) <= MaxBatchSize
           /\ \A i \in 1..Len(batches[b].subscribers) :
                  /\ PositionsOf(batches[b].subscribers[i]) = {<<b, i>>}
                  /\ req[batches[b].subscribers[i]].body = batches[b].body[i]

\* the open batch holds two requests and can take a third
C19_Witness ==
    /\ curBatch # 0
    /\ batches[curBatch].state = "open"
    /\ Len(batches[curBatch].body) = 2
    /\ batches[curBatch].subscribers = <<1, 2>>
    /\ MaxBatchSize > 2

\* C20: the body passed to SendF holds the requests of the batch in the order
\* in which their calls went through registerRequest (the callers are numbered
\* in that order), each at the index of its subscriber, and every registered
\* call is at exactly one position of exactly one batch
C20_RegistrationOrder ==
    /\ \A k \in invocations :
           /\ k.input = batches[k.batch].body
           /\ k.subs = batches[k.batch].subscribers
           /\ Len(k.input) = Len(k.subs)
           /\ \A i \in 1..Len(k.subs) : req[k.subs[i]].body = k.input[i]
           /\ \A i, j \in 1..Len(k.subs) : i < j => k.subs[i] < k.subs[j]
    /\ \A c \in Callers :
           Cardinality(PositionsOf(c)) = IF Registered(c) THEN 1 ELSE 0

\* SendF was called on a batch of two different bodies, registered in this order
C20_Witness ==
    \E k \in invocations :
        /\ k.subs = <<1, 2>>
        /\ k.input = <<req[1].body, req[2].body>>
        /\ req[1].body # req[2].body
\* the invocations of SendF whose input held the request of caller c
InvocationsOf(c) ==
    {k \in invocations : \E i \in 1..Len(k.subs) : k.subs[i] = c}

\* C21: SendF is called once on every detached batch. At all times a batch
\* that was detached is no longer the current batch, so that no trigger can
\* detach it again; SendF has been called once on a batch whose send has run
\* and not at all on any other, and no call's request is in the input of two
\* invocations. And the send of a detached batch does come to call SendF, as
\* long as the process has not died of a panic
C21_DispatchedOnce ==
    /\ [](/\ \A b \in 1..Len(batches) :
               /\ batches[b].state # "open" => curBatch # b
               /\ batches[b].state = "open" <=> batches[b].trigger = "none"
               /\ TimesSent(b) =
                      IF batches[b].state \in {"sent", "panicked"} THEN 1 ELSE 0
          /\ \A k \in invocations : k.n = 1 /\ k.input = batches[k.batch].body
          /\ \A c \in Callers : Cardinality(InvocationsOf(c)) <= 1)
    /\ \A b \in 1..NumCallers :
           (b <= Len(batches) /\ batches[b].state = "sending")
               ~> (TimesSent(b) = 1 \/ crashed # Nil)

\* the timer of a batch had fired when the size check detached the batch, the
\* callback has run since, and SendF was called once on the batch
C21_Witness ==
    \E b \in 1..Len(batches) :
        /\ batches[b].trigger = "size"
        /\ batches[b].timer = "done"
        /\ batches[b].state = "sent"
        /\ TimesSent(b) = 1

\* stop ran on the open batch, which was detached afterwards, and SendF was
\* called once on it
C21_WitnessShutdown ==
    \E b \in 1..Len(batches) :
        /\ ~running
        /\ \E i \in 1..Len(batches[b].subscribers) :
               batches[b].subscribers[i] \in atStop.waiters
        /\ batches[b].state # "open"
        /\ TimesSent(b) = 1
\* SendF is running on batch b, or about to: the batch is detached and its
\* send goroutine has not yet fanned out a result
HandlerRunning(b) == batches[b].state = "sending"

\* the caller that makes the next call
NextCaller(c) == pc[c] = "idle" /\ \A d \in Callers : d < c => pc[d] # "idle"

C22_WitnessTwoInFlight ==
    /\ Len(batches) = 2
    /\ HandlerRunning(1)
    /\ HandlerRunning(2)
====
